---- MODULE Spec2Model ----
(***************************************************************************)
(* ProgressPoint backend: the workout store, the /workout handlers and the *)
(* profile statistics computed by GET /me (streak, totals, favorite        *)
(* exercise).                                                              *)
(*                                                                         *)
(* Time is a count of ticks; TicksPerDay ticks make one calendar day of    *)
(* the reference time zone.  Weights are whole numbers, as in the seed     *)
(* data and the route tests.                                               *)
(***************************************************************************)
EXTENDS Integers, Sequences, FiniteSets, TLC

VARIABLES
    workoutTable,   \* prisma.workout rows with their nested rows, in insertion order
    exerciseTable,  \* prisma.exercise: the identifiers that have metadata
    nextId,         \* the next workout identifier the store hands out
    now,            \* the reference clock
    call,           \* what the last handler invocation read: user, request, rows, clock
    res,            \* the HTTP response of the last request, until the next step
    deleting        \* DELETE /workout invocations past the lookup: awaiting the
                    \* delete (status 0), or answered

vars == <<workoutTable, exerciseTable, nextId, now, call, res, deleting>>

\* ------------------------------------------------------------------ bounds

TicksPerDay == 2        \* clock ticks in one calendar day
MaxTime == 9            \* the clock stops here
MaxWorkouts == 4        \* workouts created in a streak history
MaxStatWorkouts == 3    \* workouts created in a statistics history
MaxDeleting == 2        \* DELETE /workout invocations that interleave
MaxOwnWorkouts == 2     \* workouts created through the API by several users

\* An absent identifier, and a nullable value: absent, or the value it holds.
NULL == "null"
Nothing == <<>>
Just(x) == <<x>>

Users == {"u1", "u2"}
ExerciseIds == {"bench", "squat"}

\* ------------------------------------------------------------ sequence helpers

Range(s) == { s[i] : i \in DOMAIN s }

SetMax(S) == CHOOSE x \in S : \A y \in S : y <= x

RECURSIVE SortDesc(_)
SortDesc(S) ==
    IF S = {} THEN <<>>
    ELSE LET m == SetMax(S) IN <<m>> \o SortDesc(S \ {m})

\* All orderings of the index set 1..n.
Orderings(n) ==
    { p \in [1..n -> 1..n] : \A i, j \in 1..n : i # j => p[i] # p[j] }

Permute(s, p) == [i \in 1..Len(s) |-> s[p[i]]]

PermutationsOf(s) == { Permute(s, p) : p \in Orderings(Len(s)) }

\* ------------------------------------------------------------------ me/utils

\* The calendar day an instant falls on.
DayKey(t) == t \div TicksPerDay

\* Deduplicated DayKeys of the workouts, most recent first.
uniqueSortedDateKeys(ws) == SortDesc({ DayKey(ws[i].startedAt) : i \in DOMAIN ws })

\* Walk the days from the most recent one while each is the expected day.
RECURSIVE StreakWalk(_, _, _, _)
StreakWalk(days, i, expected, streak) ==
    IF i > Len(days) THEN streak
    ELSE IF days[i] = expected
         THEN StreakWalk(days, i + 1, days[i] - 1, streak + 1)
         ELSE streak

computeStreakFromWorkouts(ws, clock) ==
    LET days  == uniqueSortedDateKeys(ws)
        today == DayKey(clock)
    IN  IF days = <<>> THEN 0
        ELSE IF days[1] # today /\ days[1] # today - 1 THEN 0
        ELSE StreakWalk(days, 1, days[1], 0)

\* ------------------------------------------------------------ me.controller

\* prisma.workout.findMany({ where: { userId }, orderBy: { startedAt: "desc" } }):
\* the user's rows by descending start; rows that start at the same instant come
\* in an order the store chooses.  Nested rows come in creation order.
RECURSIVE DescendingOrders(_)
DescendingOrders(rows) ==
    IF rows = {} THEN { <<>> }
    ELSE LET latest == { w \in rows : \A v \in rows : v.startedAt <= w.startedAt }
         IN  UNION { { <<w>> \o rest : rest \in DescendingOrders(rows \ {w}) } :
                     w \in latest }

FindManyDescOfAllUsers(table, userId) ==
    DescendingOrders(Range(table))

FindManyDesc(table, userId) ==
    DescendingOrders({ w \in Range(table) : w.userId = userId })

streakWorkoutsLite(workouts) ==
    [i \in 1..Len(workouts) |-> [startedAt |-> workouts[i].startedAt]]

currentStreakDayCount(workouts, clock) ==
    Len(uniqueSortedDateKeys(streakWorkoutsLite(workouts)))

currentStreakFromLastWorkout(workouts, clock) ==
    computeStreakFromWorkouts(streakWorkoutsLite(workouts),
        IF workouts = <<>> THEN clock ELSE workouts[1].startedAt)

currentStreakSkipFirst(workouts, clock) ==
    computeStreakFromWorkouts(
        streakWorkoutsLite(SubSeq(workouts, 2, Len(workouts))), clock)

currentStreak(workouts, clock) ==
    computeStreakFromWorkouts(streakWorkoutsLite(workouts), clock)

\* The same call while the clock runs: readings are the values the clock shows
\* on successive reads, and the one call reads it once.
currentStreakReadsTwice(workouts, readings) ==
    LET d == uniqueSortedDateKeys(streakWorkoutsLite(workouts))
    IN  IF d = <<>> THEN 0
        ELSE IF d[1] # DayKey(readings[2]) /\ d[1] # DayKey(readings[1]) - 1 THEN 0
        ELSE StreakWalk(d, 1, d[1], 0)

currentStreakReading(workouts, readings) ==
    currentStreak(workouts, readings[1])

daysNoDedupe(workouts) ==
    [i \in 1..Len(workouts) |-> DayKey(workouts[i].startedAt)]

days(workouts) ==
    uniqueSortedDateKeys(streakWorkoutsLite(workouts))

lastWorkoutDateFromLastEntry(workouts) ==
    LET d == days(workouts) IN IF d = <<>> THEN Nothing ELSE Just(d[Len(d)])

lastWorkoutDate(workouts) ==
    LET d == days(workouts) IN IF d = <<>> THEN Nothing ELSE Just(d[1])

\* totalDuration: workouts.reduce((acc, w) => acc + (w.durationMinutes ?? 0), 0)
AddDurationNullAsOne(acc, w) ==
    IF w.durationMinutes = Nothing THEN acc + 1 ELSE acc + w.durationMinutes[1]

AddDuration(acc, w) ==
    IF w.durationMinutes = Nothing THEN acc + 0 ELSE acc + w.durationMinutes[1]

RECURSIVE ReduceDuration(_, _, _)
ReduceDuration(workouts, i, acc) ==
    IF i > Len(workouts) THEN acc
    ELSE ReduceDuration(workouts, i + 1, AddDuration(acc, workouts[i]))

totalDuration(workouts) == ReduceDuration(workouts, 1, 0)

\* exerciseIds: the Set filled by the first pair of forEach loops; its size.
exerciseIds(workouts) ==
    UNION { { we.exerciseId : we \in Range(w.workoutExercises) } : w \in Range(workouts) }

totalExercisesUsed(workouts) == Cardinality(exerciseIds(workouts))

\* exerciseFrequency is a Map: its entries are kept in the order their keys were
\* first set, and forEach visits them in that order.
MapHas(m, k) == \E i \in DOMAIN m : m[i].key = k

MapGet(m, k) == (CHOOSE e \in Range(m) : e.key = k).value

MapSet(m, k, v) ==
    IF MapHas(m, k)
    THEN [i \in DOMAIN m |-> IF m[i].key = k THEN [key |-> k, value |-> v] ELSE m[i]]
    ELSE Append(m, [key |-> k, value |-> v])

\* exerciseFrequency.set(we.exerciseId, (exerciseFrequency.get(we.exerciseId) || 0) + 1)
CountExercisePerSet(freq, we) ==
    MapSet(freq, we.exerciseId,
           (IF MapHas(freq, we.exerciseId) THEN MapGet(freq, we.exerciseId) ELSE 0)
             + Len(we.sets))

CountExerciseNoAccumulate(freq, we) ==
    MapSet(freq, we.exerciseId, 1)

CountExercise(freq, we) ==
    MapSet(freq, we.exerciseId,
           (IF MapHas(freq, we.exerciseId) THEN MapGet(freq, we.exerciseId) ELSE 0) + 1)

\* totalReps += s.repetitions; totalVolume += s.repetitions * s.weight;
\* if (s.weight > heaviestWeight) heaviestWeight = s.weight
AddSetOverwriteVolume(acc, s) ==
    [acc EXCEPT !.totalReps = @ + s.repetitions,
                !.totalVolume = s.repetitions * s.weight,
                !.heaviestWeight = IF s.weight > @ THEN s.weight ELSE @]

AddSetLastWeight(acc, s) ==
    [acc EXCEPT !.totalReps = @ + s.repetitions,
                !.totalVolume = @ + s.repetitions * s.weight,
                !.heaviestWeight = s.weight]

AddSet(acc, s) ==
    [acc EXCEPT !.totalReps = @ + s.repetitions,
                !.totalVolume = @ + s.repetitions * s.weight,
                !.heaviestWeight = IF s.weight > @ THEN s.weight ELSE @]

RECURSIVE ForEachSet(_, _, _)
ForEachSet(sets, i, acc) ==
    IF i > Len(sets) THEN acc
    ELSE ForEachSet(sets, i + 1, AddSet(acc, sets[i]))

\* totalSets += we.sets.length, the frequency count, then the sets of the record.
AddExercise(acc, we) ==
    ForEachSet(we.sets, 1,
        [acc EXCEPT !.totalSets = @ + Len(we.sets),
                    !.exerciseFrequency = CountExercise(@, we)])

RECURSIVE ForEachExercise(_, _, _)
ForEachExercise(wes, j, acc) ==
    IF j > Len(wes) THEN acc
    ELSE ForEachExercise(wes, j + 1, AddExercise(acc, wes[j]))

RECURSIVE ForEachWorkout(_, _, _)
ForEachWorkout(workouts, i, acc) ==
    IF i > Len(workouts) THEN acc
    ELSE ForEachWorkout(workouts, i + 1,
                        ForEachExercise(workouts[i].workoutExercises, 1, acc))

TotalsHeaviestFromMinusOne(workouts) ==
    ForEachWorkout(workouts, 1,
        [totalSets |-> 0, totalReps |-> 0, totalVolume |-> 0, heaviestWeight |-> -1,
         exerciseFrequency |-> <<>>])

Totals(workouts) ==
    ForEachWorkout(workouts, 1,
        [totalSets |-> 0, totalReps |-> 0, totalVolume |-> 0, heaviestWeight |-> 0,
         exerciseFrequency |-> <<>>])

\* exerciseFrequency.forEach((count, exerciseId) => { if (count > maxFrequency) ... })
PickFavoriteLastWins(best, e) ==
    IF e.value >= best.maxFrequency
    THEN [favoriteExerciseId |-> e.key, maxFrequency |-> e.value]
    ELSE best

PickFavorite(best, e) ==
    IF e.value > best.maxFrequency
    THEN [favoriteExerciseId |-> e.key, maxFrequency |-> e.value]
    ELSE best

RECURSIVE ForEachFrequency(_, _, _)
ForEachFrequency(freq, i, best) ==
    IF i > Len(freq) THEN best
    ELSE ForEachFrequency(freq, i + 1, PickFavorite(best, freq[i]))

favoriteExerciseId(workouts) ==
    ForEachFrequency(Totals(workouts).exerciseFrequency, 1,
        [favoriteExerciseId |-> NULL, maxFrequency |-> 0]).favoriteExerciseId

\* prisma.exercise.findUnique({ where: { id } }): the metadata row, or null.
FindExercise(exTable, id) ==
    IF id \in exTable THEN Just([id |-> id]) ELSE Nothing

favoriteExerciseWithoutLookup(workouts, exTable) ==
    LET id == favoriteExerciseId(workouts)
    IN  IF id # NULL THEN Just([id |-> id]) ELSE Nothing

favoriteExercise(workouts, exTable) ==
    LET id == favoriteExerciseId(workouts)
    IN  IF id # NULL THEN FindExercise(exTable, id) ELSE Nothing

\* The JSON body of the 200 response.
MeBody(userId, workouts, clock, exTable) ==
    LET t == Totals(workouts)
    IN  [ user               |-> userId,
          totalWorkouts      |-> Len(workouts),
          currentStreak      |-> currentStreak(workouts, clock),
          days               |-> days(workouts),
          lastWorkoutDate    |-> lastWorkoutDate(workouts),
          totalDuration      |-> totalDuration(workouts),
          totalExercisesUsed |-> totalExercisesUsed(workouts),
          totalSets          |-> t.totalSets,
          totalReps          |-> t.totalReps,
          totalVolume        |-> t.totalVolume,
          heaviestWeight     |-> t.heaviestWeight,
          favoriteExercise   |-> favoriteExercise(workouts, exTable) ]

\* GET /me
MeWithoutAuthCheck(userId) ==
    /\ \E workouts \in FindManyDesc(workoutTable, userId) :
            /\ res' = [status |-> 200,
                       body |-> MeBody(userId, workouts, now, exerciseTable)]
            /\ call' = [op |-> "me", userId |-> userId, req |-> Nothing,
                        workouts |-> workouts, clock |-> now]
    /\ UNCHANGED <<workoutTable, exerciseTable, nextId, now, deleting>>

Me(userId) ==
    /\ IF userId = NULL
       THEN /\ res' = [status |-> 401, body |-> [error |-> "Unauthorized"]]
            /\ call' = [op |-> "me", userId |-> NULL, req |-> Nothing,
                        workouts |-> <<>>, clock |-> 0]
       ELSE \E workouts \in FindManyDesc(workoutTable, userId) :
            /\ res' = [status |-> 200,
                       body |-> MeBody(userId, workouts, now, exerciseTable)]
            /\ call' = [op |-> "me", userId |-> userId, req |-> Nothing,
                        workouts |-> workouts, clock |-> now]
    /\ UNCHANGED <<workoutTable, exerciseTable, nextId, now, deleting>>

\* GET /me by a user while the clock may advance by a tick before the answer.
MeWhileClockAdvances(userId) ==
    /\ \E workouts \in FindManyDesc(workoutTable, userId),
          later \in { t \in {now, now + 1} : t <= MaxTime } :
            /\ res' = [status |-> 200,
                       body |-> [MeBody(userId, workouts, now, exerciseTable)
                                   EXCEPT !.currentStreak =
                                     currentStreakReading(workouts, <<now, later>>)]]
            /\ call' = [op |-> "me", userId |-> userId, req |-> Nothing,
                        workouts |-> workouts, clock |-> now]
            /\ now' = later
    /\ UNCHANGED <<workoutTable, exerciseTable, nextId, deleting>>

\* ------------------------------------------------------- workout.controller

NoCall == [op |-> "none", userId |-> NULL, req |-> Nothing, workouts |-> <<>>, clock |-> 0]
NoRes == [status |-> 0, body |-> [message |-> "none"]]

Reply(op, userId, req, status, message) ==
    /\ res' = [status |-> status, body |-> [message |-> message]]
    /\ call' = [op |-> op, userId |-> userId, req |-> req, workouts |-> <<>>,
                clock |-> 0]

AnyNegativeWeight(exercises) ==
    \E e \in Range(exercises) : \E st \in Range(e.sets) : st.weight < 0

AnyNegativeSet(exercises) ==
    \E e \in Range(exercises) : \E st \in Range(e.sets) :
        st.repetitions < 0 \/ st.weight < 0

\* prisma.exercise.findMany({ where: { id: { in: exerciseIds } } }): one row for
\* each stored exercise that is listed, however often it is listed.
existingExercises(exTable, ids) == Range(ids) \cap exTable

NewWorkout(id, userId, startedAt, durationMinutes, exercises) ==
    [ id |-> id, userId |-> userId, startedAt |-> startedAt,
      durationMinutes |-> durationMinutes,
      workoutExercises |->
          [j \in 1..Len(exercises) |->
              [exerciseId |-> exercises[j].exerciseId, sets |-> exercises[j].sets]] ]

\* POST /workout.  A body without durationMinutes holds Nothing; one without
\* exercises is handled as one with an empty list.
CreateWorkoutStoresBeforeLookup(userId, body) ==
    LET durationMinutes == body.durationMinutes
        exercises       == body.exercises
    IN
    IF userId = NULL THEN
        /\ Reply("createWorkout", userId, Just(body), 401, "Unauthorized")
        /\ UNCHANGED <<workoutTable, exerciseTable, nextId, now, deleting>>
    ELSE IF durationMinutes = Nothing \/ durationMinutes = Just(0)
            \/ exercises = <<>> THEN
        /\ Reply("createWorkout", userId, Just(body), 400, "Missing required fields")
        /\ UNCHANGED <<workoutTable, exerciseTable, nextId, now, deleting>>
    ELSE IF durationMinutes[1] < 0 THEN
        /\ Reply("createWorkout", userId, Just(body), 400,
                 "Duration must not be negative")
        /\ UNCHANGED <<workoutTable, exerciseTable, nextId, now, deleting>>
    ELSE IF AnyNegativeSet(exercises) THEN
        /\ Reply("createWorkout", userId, Just(body), 400,
                 "Repetitions and weight must not be negative")
        /\ UNCHANGED <<workoutTable, exerciseTable, nextId, now, deleting>>
    ELSE
        /\ workoutTable' = Append(workoutTable,
               NewWorkout(nextId, userId, now, durationMinutes,
                   SelectSeq(exercises, LAMBDA e : e.exerciseId \in exerciseTable)))
        /\ nextId' = nextId + 1
        /\ IF Cardinality(existingExercises(exerciseTable,
                   [j \in 1..Len(exercises) |-> exercises[j].exerciseId]))
                 # Len(exercises)
           THEN Reply("createWorkout", userId, Just(body), 400,
                      "one or more exercises not found")
           ELSE /\ res' = [status |-> 201, body |-> [id |-> nextId]]
                /\ call' = [op |-> "createWorkout", userId |-> userId,
                            req |-> Just(body), workouts |-> <<>>, clock |-> now]
        /\ UNCHANGED <<exerciseTable, now, deleting>>

CreateWorkout(userId, body) ==
    LET durationMinutes == body.durationMinutes
        exercises       == body.exercises
    IN
    IF userId = NULL THEN
        /\ Reply("createWorkout", userId, Just(body), 401, "Unauthorized")
        /\ UNCHANGED <<workoutTable, exerciseTable, nextId, now, deleting>>
    ELSE IF durationMinutes = Nothing \/ durationMinutes = Just(0)
            \/ exercises = <<>> THEN
        /\ Reply("createWorkout", userId, Just(body), 400, "Missing required fields")
        /\ UNCHANGED <<workoutTable, exerciseTable, nextId, now, deleting>>
    ELSE IF durationMinutes[1] < 0 THEN
        /\ Reply("createWorkout", userId, Just(body), 400,
                 "Duration must not be negative")
        /\ UNCHANGED <<workoutTable, exerciseTable, nextId, now, deleting>>
    ELSE IF AnyNegativeSet(exercises) THEN
        /\ Reply("createWorkout", userId, Just(body), 400,
                 "Repetitions and weight must not be negative")
        /\ UNCHANGED <<workoutTable, exerciseTable, nextId, now, deleting>>
    ELSE IF Cardinality(existingExercises(exerciseTable,
                [j \in 1..Len(exercises) |-> exercises[j].exerciseId]))
              # Len(exercises) THEN
        /\ Reply("createWorkout", userId, Just(body), 400,
                 "one or more exercises not found")
        /\ UNCHANGED <<workoutTable, exerciseTable, nextId, now, deleting>>
    ELSE
        /\ workoutTable' = Append(workoutTable,
               NewWorkout(nextId, userId, now, durationMinutes, exercises))
        /\ nextId' = nextId + 1
        /\ res' = [status |-> 201, body |-> [id |-> nextId]]
        /\ call' = [op |-> "createWorkout", userId |-> userId, req |-> Just(body),
                    workouts |-> <<>>, clock |-> now]
        /\ UNCHANGED <<exerciseTable, now, deleting>>

\* DELETE /workout.  A body without workoutId holds 0, which is as falsy.
DeleteWorkoutOfAnyOwner(userId, workoutId) ==
    LET req == Just([workoutId |-> workoutId])
    IN
    IF userId = NULL THEN
        /\ Reply("deleteWorkout", userId, req, 401, "Unauthorized")
        /\ UNCHANGED <<workoutTable, exerciseTable, nextId, now, deleting>>
    ELSE IF workoutId = 0 THEN
        /\ Reply("deleteWorkout", userId, req, 400, "Missing workoutId in request body")
        /\ UNCHANGED <<workoutTable, exerciseTable, nextId, now, deleting>>
    ELSE IF ~ \E w \in Range(workoutTable) : w.id = workoutId THEN
        /\ Reply("deleteWorkout", userId, req, 404, "Workout not found")
        /\ UNCHANGED <<workoutTable, exerciseTable, nextId, now, deleting>>
    ELSE
        /\ workoutTable' = SelectSeq(workoutTable, LAMBDA w : w.id # workoutId)
        /\ Reply("deleteWorkout", userId, req, 200, "Workout deleted successfully")
        /\ UNCHANGED <<exerciseTable, nextId, now, deleting>>

DeleteWorkout(userId, workoutId) ==
    LET req == Just([workoutId |-> workoutId])
    IN
    IF userId = NULL THEN
        /\ Reply("deleteWorkout", userId, req, 401, "Unauthorized")
        /\ UNCHANGED <<workoutTable, exerciseTable, nextId, now, deleting>>
    ELSE IF workoutId = 0 THEN
        /\ Reply("deleteWorkout", userId, req, 400, "Missing workoutId in request body")
        /\ UNCHANGED <<workoutTable, exerciseTable, nextId, now, deleting>>
    ELSE IF ~ \E w \in Range(workoutTable) : w.id = workoutId /\ w.userId = userId THEN
        /\ Reply("deleteWorkout", userId, req, 404, "Workout not found")
        /\ UNCHANGED <<workoutTable, exerciseTable, nextId, now, deleting>>
    ELSE
        /\ workoutTable' = SelectSeq(workoutTable, LAMBDA w : w.id # workoutId)
        /\ Reply("deleteWorkout", userId, req, 200, "Workout deleted successfully")
        /\ UNCHANGED <<exerciseTable, nextId, now, deleting>>

\* DELETE /workout as the event loop runs it: the handler is suspended at
\* `await prisma.workout.findUnique` and at `await prisma.workout.delete`, and
\* other invocations run in between.
findUnique(table, workoutId) ==
    LET rows == SelectSeq(table, LAMBDA w : w.id = workoutId)
    IN  IF rows = <<>> THEN Nothing ELSE Just(rows[1])

\* The handler up to the ownership test.  The invocation that passes it goes on
\* to the delete and has answered nothing yet.
DeleteWorkoutLookup(userId, workoutId) ==
    LET req == Just([workoutId |-> workoutId])
        workout == findUnique(workoutTable, workoutId)
    IN
    IF userId = NULL THEN
        /\ Reply("deleteWorkout", userId, req, 401, "Unauthorized")
        /\ UNCHANGED <<workoutTable, exerciseTable, nextId, now, deleting>>
    ELSE IF workoutId = 0 THEN
        /\ Reply("deleteWorkout", userId, req, 400, "Missing workoutId in request body")
        /\ UNCHANGED <<workoutTable, exerciseTable, nextId, now, deleting>>
    ELSE IF workout = Nothing \/ workout[1].userId # userId THEN
        /\ Reply("deleteWorkout", userId, req, 404, "Workout not found")
        /\ UNCHANGED <<workoutTable, exerciseTable, nextId, now, deleting>>
    ELSE
        /\ deleting' = Append(deleting,
               [userId |-> userId, workoutId |-> workoutId, status |-> 0])
        /\ call' = NoCall
        /\ res' = NoRes
        /\ UNCHANGED <<workoutTable, exerciseTable, nextId, now>>

\* The handler from prisma.workout.delete on, for the i-th invocation.  Deleting
\* a row that is no longer stored throws, and the handler's catch answers 500.
DeleteWorkoutDelete(i) ==
    LET d == deleting[i]
        req == Just([workoutId |-> d.workoutId])
    IN
    /\ d.status = 0
    /\ IF findUnique(workoutTable, d.workoutId) # Nothing THEN
           /\ workoutTable' = SelectSeq(workoutTable, LAMBDA w : w.id # d.workoutId)
           /\ deleting' = [deleting EXCEPT ![i].status = 200]
           /\ Reply("deleteWorkout", d.userId, req, 200, "Workout deleted successfully")
       ELSE
           /\ deleting' = [deleting EXCEPT ![i].status = 500]
           /\ Reply("deleteWorkout", d.userId, req, 500, "Internal server error")
           /\ UNCHANGED workoutTable
    /\ UNCHANGED <<exerciseTable, nextId, now>>

\* A query parameter is absent (Nothing) or a text, a sequence of characters.
Digits == <<"0", "1", "2", "3", "4", "5", "6", "7", "8", "9">>

IsDigit(c) == \E i \in DOMAIN Digits : Digits[i] = c

DigitValue(c) == (CHOOSE i \in DOMAIN Digits : Digits[i] = c) - 1

RECURSIVE SkipSpaces(_, _)
SkipSpaces(text, i) ==
    IF i <= Len(text) /\ text[i] = " " THEN SkipSpaces(text, i + 1) ELSE i

RECURSIVE ReadDigits(_, _, _)
ReadDigits(text, i, acc) ==
    IF i > Len(text) \/ ~ IsDigit(text[i]) THEN acc
    ELSE ReadDigits(text, i + 1, acc * 10 + DigitValue(text[i]))

\* parseInt of a decimal text: leading spaces, a sign, then the digits up to the
\* first character that is none; NaN (Nothing) when there is no digit there, and
\* for an absent parameter.
parseInt(param) ==
    IF param = Nothing THEN Nothing
    ELSE LET text  == param[1]
             start == SkipSpaces(text, 1)
             sign  == start <= Len(text) /\ text[start] \in {"-", "+"}
             first == IF sign THEN start + 1 ELSE start
         IN  IF first > Len(text) \/ ~ IsDigit(text[first]) THEN Nothing
             ELSE Just((IF sign /\ text[start] = "-" THEN -1 ELSE 1)
                         * ReadDigits(text, first, 0))

isNaN(x) == x = Nothing

\* const page = isNaN(parsedPage) ? 1 : parsedPage
OrDefaultSwallowsZero(parsed, default) ==
    IF isNaN(parsed) \/ parsed = Just(0) THEN default ELSE parsed[1]

OrDefault(parsed, default) ==
    IF isNaN(parsed) THEN default ELSE parsed[1]

skipFromPage(page, limit) == page * limit

skip(page, limit) == (page - 1) * limit

\* findMany({ ..., skip, take }): at most take rows after the first skip rows.
SkipTake(rows, skipped, take) ==
    SubSeq(rows, skipped + 1,
           IF skipped + take < Len(rows) THEN skipped + take ELSE Len(rows))

\* prisma.workout.count({ where: { userId } })
CountWorkouts(table, userId) ==
    Cardinality({ i \in DOMAIN table : table[i].userId = userId })

\* Math.ceil(totalWorkouts / limit)
totalPages(totalWorkouts, limit) == (totalWorkouts + limit - 1) \div limit

\* The JSON body of the 200 response of GET /workout.
ListBody(rows, totalWorkouts, page, limit) ==
    [ workouts   |-> SkipTake(rows, skip(page, limit), limit),
      pagination |->
          [ currentPage     |-> page,
            totalPages      |-> totalPages(totalWorkouts, limit),
            totalWorkouts   |-> totalWorkouts,
            limit           |-> limit,
            hasNextPage     |-> page < totalPages(totalWorkouts, limit),
            hasPreviousPage |-> page > 1 ] ]

\* GET /workout?page=..&limit=..
GetWorkout(userId, query) ==
    LET req   == Just(query)
        page  == OrDefault(parseInt(query.page), 1)
        limit == OrDefault(parseInt(query.limit), 10)
    IN
    /\ IF userId = NULL THEN
           Reply("getWorkout", userId, req, 401, "Unauthorized")
       ELSE IF page < 1 THEN
           Reply("getWorkout", userId, req, 400, "Page must be at least 1")
       ELSE IF limit < 1 \/ limit > 100 THEN
           Reply("getWorkout", userId, req, 400, "Limit must be between 1 and 100")
       ELSE \E rows \in FindManyDesc(workoutTable, userId) :
           LET body == ListBody(rows, CountWorkouts(workoutTable, userId), page, limit)
           IN  /\ res' = [status |-> 200, body |-> body]
               /\ call' = [op |-> "getWorkout", userId |-> userId, req |-> req,
                           workouts |-> body.workouts, clock |-> 0]
    /\ UNCHANGED <<workoutTable, exerciseTable, nextId, now, deleting>>

\* prisma.workout.create with nested rows, as the seed script and the route tests
\* call it: the row is stored as given, and nothing is answered.
PrismaWorkoutCreate(userId, startedAt, durationMinutes, exercises) ==
    /\ workoutTable' = Append(workoutTable,
           NewWorkout(nextId, userId, startedAt, durationMinutes, exercises))
    /\ nextId' = nextId + 1
    /\ call' = NoCall
    /\ res' = NoRes
    /\ UNCHANGED <<exerciseTable, now, deleting>>

\* The reference clock advances; the last response has been delivered by then.
Tick ==
    /\ now < MaxTime
    /\ now' = now + 1
    /\ call' = NoCall
    /\ res' = NoRes
    /\ UNCHANGED <<workoutTable, exerciseTable, nextId, deleting>>

\* ------------------------------------------------------------------ inputs

Exercise(id, sets) == [exerciseId |-> id, sets |-> sets]

Set1 == [repetitions |-> 10, weight |-> 50]
Set2 == [repetitions |-> 8, weight |-> 55]
Set3 == [repetitions |-> 12, weight |-> 80]

\* One bench-press set, the body the route tests post.
StreakBody ==
    [durationMinutes |-> Just(60), exercises |-> << Exercise("bench", <<Set1>>) >>]

\* --------------------------------------------------------- specifications

InitAt(t) ==
    /\ workoutTable = <<>>
    /\ exerciseTable = ExerciseIds
    /\ nextId = 1
    /\ now = t
    /\ call = NoCall
    /\ res = NoRes
    /\ deleting = <<>>

\* A user posts workouts day after day and asks for the profile.
InitStreak == InitAt(0)

CreateStreakWorkout == nextId <= MaxWorkouts /\ CreateWorkout("u1", StreakBody)

\* GET /me by the user.  A second GET /me with nothing in between reads the same
\* store and clock, so it answers nothing the first could not have answered.
MeStreak == call.op # "me" /\ Me("u1")

NextStreak == Tick \/ CreateStreakWorkout \/ MeStreak

SpecStreak == InitStreak /\ [][NextStreak]_vars

\* The same, with the clock advancing while /me is served.
MeClock == call.op # "me" /\ MeWhileClockAdvances("u1")

NextClock == Tick \/ CreateStreakWorkout \/ MeClock

SpecClock == InitStreak /\ [][NextClock]_vars

\* Statistics histories are stored with prisma.workout.create, over two days.
InitStats == InitAt(MaxTime - 2)

TickStats == now < MaxTime - 1 /\ Tick

MeStats == call.op # "me" /\ Me("u1")

\* Records of the favorite-exercise histories: a bench press with two sets (more
\* repetitions) and a squat with one set (more weight and more volume).
FavExercises ==
    { Exercise("bench", <<Set1, Set2>>), Exercise("squat", <<Set3>>) }

FavExerciseLists ==
    { <<>> } \cup { <<e>> : e \in FavExercises }
             \cup { <<e, f>> : e \in FavExercises, f \in FavExercises }

CreateFavWorkout ==
    /\ nextId <= MaxStatWorkouts
    /\ \E exercises \in FavExerciseLists :
           PrismaWorkoutCreate("u1", now, Just(60), exercises)

NextFav == TickStats \/ CreateFavWorkout \/ MeStats

SpecFav == InitStats /\ [][NextFav]_vars

\* Workouts of the totals histories: the workout of prisma/seed.ts (two exercises,
\* three sets), workouts of one exercise with one of its sets, with or without a
\* duration, a shorter workout with a record without sets, and a workout without
\* exercises or duration.
TotalsWorkouts ==
    { [durationMinutes |-> Just(60),
       exercises |-> << Exercise("bench", <<Set1, Set2>>), Exercise("squat", <<Set3>>) >>],
      [durationMinutes |-> Just(60), exercises |-> << Exercise("bench", <<Set1>>) >>],
      [durationMinutes |-> Nothing,  exercises |-> << Exercise("bench", <<Set2>>) >>],
      [durationMinutes |-> Just(60), exercises |-> << Exercise("squat", <<Set3>>) >>],
      [durationMinutes |-> Just(30),
       exercises |-> << Exercise("squat", <<>>), Exercise("bench", <<Set3>>) >>],
      [durationMinutes |-> Nothing,  exercises |-> <<>>] }

\* One workout is stored at an instant, over as many instants as workouts.
InitTotals == InitAt(MaxTime - MaxStatWorkouts + 1)

CreateTotalsWorkout ==
    /\ nextId <= MaxStatWorkouts
    /\ \A v \in Range(workoutTable) : v.startedAt # now
    /\ \E w \in TotalsWorkouts :
           PrismaWorkoutCreate("u1", now, w.durationMinutes, w.exercises)

NextTotals == Tick \/ CreateTotalsWorkout \/ MeStats

SpecTotals == InitTotals /\ [][NextTotals]_vars

\* Histories read from a store in which the metadata row of some referenced
\* exercise may be missing: exercise.findUnique then returns null.
InitMeta ==
    /\ workoutTable = <<>>
    /\ exerciseTable \in SUBSET ExerciseIds
    /\ nextId = 1
    /\ now = MaxTime - 2
    /\ call = NoCall
    /\ res = NoRes
    /\ deleting = <<>>

MetaExerciseLists == { <<>> } \cup { <<e>> : e \in FavExercises }

CreateMetaWorkout ==
    /\ nextId <= MaxStatWorkouts
    /\ \E exercises \in MetaExerciseLists :
           PrismaWorkoutCreate("u1", now, Just(60), exercises)

NextMeta == TickStats \/ CreateMetaWorkout \/ MeStats

SpecMeta == InitMeta /\ [][NextMeta]_vars

\* Query parameters of GET /workout: absent, without a digit, below, inside and
\* above the valid range, and texts that continue after their digits.
PageTexts ==
    { Nothing, Just(<<"a", "b", "c">>), Just(<<"0">>), Just(<<"-", "1">>),
      Just(<<"1">>), Just(<<"2">>), Just(<<"3">>), Just(<<"2", "x">>) }

LimitTexts ==
    { Nothing, Just(<<"x", "y", "z">>), Just(<<"0">>), Just(<<"1">>), Just(<<"2">>),
      Just(<<"1", "0", "0">>), Just(<<"1", "0", "1">>),
      Just(<<"1", "0", "0", ".", "5">>) }

\* Two users' workouts are stored as the route tests store them, started now or
\* a day ago, and one of the users lists workouts page by page.
InitPages == InitAt(MaxTime - 2)

CreatePageWorkout ==
    /\ nextId <= MaxStatWorkouts
    /\ \E userId \in Users, startedAt \in {now - TicksPerDay, now} :
           PrismaWorkoutCreate(userId, startedAt, Just(60), StreakBody.exercises)

\* GET /workout by the user.  It changes nothing in the store, so a second one
\* right after it answers nothing the first could not have answered.
GetPages ==
    /\ call.op # "getWorkout"
    /\ \E page \in PageTexts, limit \in LimitTexts :
           GetWorkout("u1", [page |-> page, limit |-> limit])

NextPages == CreatePageWorkout \/ GetPages

SpecPages == InitPages /\ [][NextPages]_vars

\* The whole service: two users and requests without a user, valid and invalid
\* bodies, over the last two clock values.
RequestBodies ==
    { StreakBody,
      [durationMinutes |-> Just(45),
       exercises |-> << Exercise("squat", <<Set3>>), Exercise("bench", <<Set1, Set2>>) >>],
      [durationMinutes |-> Nothing, exercises |-> << Exercise("bench", <<Set1>>) >>],
      [durationMinutes |-> Just(0), exercises |-> << Exercise("bench", <<Set1>>) >>],
      [durationMinutes |-> Just(60), exercises |-> <<>>],
      [durationMinutes |-> Just(-30), exercises |-> << Exercise("bench", <<Set1>>) >>],
      [durationMinutes |-> Just(60),
       exercises |-> << Exercise("bench", << [repetitions |-> -1, weight |-> 50] >>) >>],
      [durationMinutes |-> Just(60),
       exercises |-> << Exercise("bench", <<Set1>>), Exercise("ghost", <<Set2>>) >>],
      [durationMinutes |-> Just(60),
       exercises |-> << Exercise("bench", <<Set1>>), Exercise("bench", <<Set2>>) >>] }

Init == InitAt(MaxTime - 1)

CreateRequest ==
    /\ nextId <= MaxOwnWorkouts
    /\ \E userId \in Users \cup {NULL}, body \in RequestBodies :
           CreateWorkout(userId, body)

DeleteRequest ==
    \E userId \in Users \cup {NULL}, workoutId \in 0..MaxOwnWorkouts :
        DeleteWorkout(userId, workoutId)

MeRequest ==
    /\ call.op # "me"
    /\ \E userId \in Users \cup {NULL} : Me(userId)

RequestQueries ==
    { [page |-> Nothing, limit |-> Nothing],
      [page |-> Just(<<"2">>), limit |-> Just(<<"1">>)] }

GetRequest ==
    /\ call.op # "getWorkout"
    /\ \E userId \in Users \cup {NULL}, query \in RequestQueries :
           GetWorkout(userId, query)

Next == Tick \/ CreateRequest \/ DeleteRequest \/ MeRequest \/ GetRequest

Spec == Init /\ [][Next]_vars

\* Two users create, list and delete workouts side by side.
OwnBodies ==
    { StreakBody,
      [durationMinutes |-> Just(45),
       exercises |-> << Exercise("squat", <<Set3>>), Exercise("bench", <<Set1, Set2>>) >>] }

CreateOwn ==
    /\ nextId <= MaxOwnWorkouts
    /\ \E userId \in Users, body \in OwnBodies : CreateWorkout(userId, body)

DeleteAny ==
    \E userId \in Users, workoutId \in 1..MaxOwnWorkouts :
        DeleteWorkout(userId, workoutId)

MeOwn ==
    /\ call.op # "me"
    /\ \E userId \in Users : Me(userId)

GetOwn ==
    /\ call.op # "getWorkout"
    /\ \E userId \in Users, query \in RequestQueries : GetWorkout(userId, query)

NextOwners == Tick \/ CreateOwn \/ DeleteAny \/ MeOwn \/ GetOwn

SpecOwners == Init /\ [][NextOwners]_vars

\* Delete requests of two users arrive while earlier ones are still running.
CreateRace ==
    /\ nextId <= MaxOwnWorkouts
    /\ \E userId \in Users : CreateWorkout(userId, StreakBody)

LookupRace ==
    /\ Len(deleting) < MaxDeleting
    /\ \E userId \in Users \cup {NULL}, workoutId \in 0..MaxOwnWorkouts :
           DeleteWorkoutLookup(userId, workoutId)

DeleteRace == \E i \in DOMAIN deleting : DeleteWorkoutDelete(i)

NextRace == CreateRace \/ LookupRace \/ DeleteRace

SpecRace == Init /\ [][NextRace]_vars

\* ------------------------------------------------------------ streak claims

\* GET /me answered 200: call holds the rows and the clock value it read.
MeAnswered == call.op = "me" /\ res.status = 200

Today == DayKey(call.clock)

ConsecutivePrefix(d, k) == \A i \in 1..(k - 1) : d[i + 1] = d[i] - 1

\* C1: the days reported by /me are strictly descending, so hold no DayKey twice;
\* every workout's calendar day is reported exactly once whatever its time of
\* day, only days of workouts are reported, and no workouts give no days.
C1_DaysStrictlyDescending ==
    MeAnswered =>
        LET d == res.body.days
        IN  /\ \A i, j \in DOMAIN d : i < j => d[i] > d[j]
            /\ \A w \in Range(call.workouts) :
                   Cardinality({ i \in DOMAIN d : d[i] = w.startedAt \div TicksPerDay }) = 1
            /\ \A i \in DOMAIN d :
                   \E w \in Range(call.workouts) : w.startedAt \div TicksPerDay = d[i]
            /\ (call.workouts = <<>> => d = <<>>)

\* Two workouts at different times of the same day, and a workout on another day.
C1_Witness ==
    /\ MeAnswered
    /\ Len(res.body.days) = 2
    /\ \E v, w \in Range(call.workouts) :
          /\ v.startedAt # w.startedAt
          /\ DayKey(v.startedAt) = DayKey(w.startedAt)

\* C2: when the most recent day is today or yesterday, currentStreak is the length
\* of the longest prefix of the days in which each day is one day before its
\* predecessor: counting stops at the first gap.
C2_StreakIsConsecutivePrefix ==
    (MeAnswered /\ res.body.days # <<>>
       /\ res.body.days[1] \in {Today, Today - 1}) =>
        LET d == res.body.days
            k == res.body.currentStreak
        IN  /\ k \in 1..Len(d)
            /\ ConsecutivePrefix(d, k)
            /\ (k < Len(d) => d[k + 1] # d[k] - 1)

\* Days today, today-1, today-2, today-4 give a streak of 3.
C2_Witness ==
    /\ MeAnswered
    /\ res.body.days = <<Today, Today - 1, Today - 2, Today - 4>>
    /\ res.body.currentStreak = 3

\* C3: when the most recent day is two or more days before today, currentStreak
\* is 0 however long the run of consecutive days ending there.
C3_StaleStreakIsZero ==
    (MeAnswered /\ res.body.days # <<>> /\ res.body.days[1] <= Today - 2) =>
        res.body.currentStreak = 0

\* A run of three consecutive days that ended the day before yesterday.
C3_Witness ==
    /\ MeAnswered
    /\ res.body.days = <<Today - 2, Today - 3, Today - 4>>
    /\ res.body.currentStreak = 0

\* C4: a history whose most recent day is today or yesterday has a streak of at
\* least 1.
C4_LiveStreakAtLeastOne ==
    (MeAnswered /\ call.workouts # <<>>
       /\ DayKey(call.workouts[1].startedAt) \in {Today, Today - 1}) =>
        res.body.currentStreak >= 1

\* The streak starts at yesterday and the day before it has no workout.
C4_Witness ==
    /\ MeAnswered
    /\ Len(res.body.days) = 2
    /\ res.body.days[1] = Today - 1
    /\ res.body.days[2] < Today - 2
    /\ res.body.currentStreak = 1

\* ------------------------------------------------- favorite-exercise claims

\* The records of a history: workout i, record j, in the order they are visited.
RecordsOf(ws) ==
    UNION { { <<i, j>> : j \in DOMAIN ws[i].workoutExercises } : i \in DOMAIN ws }

UsedIds(ws) == { ws[r[1]].workoutExercises[r[2]].exerciseId : r \in RecordsOf(ws) }

RecordsWith(ws, id) ==
    { r \in RecordsOf(ws) : ws[r[1]].workoutExercises[r[2]].exerciseId = id }

RecordCount(ws, id) == Cardinality(RecordsWith(ws, id))

WorkoutCount(ws, id) == Cardinality({ r[1] : r \in RecordsWith(ws, id) })

VisitedBefore(r, q) == r[1] < q[1] \/ (r[1] = q[1] /\ r[2] < q[2])

\* id is met before other when the workouts are visited most recent first.
FirstSeenBefore(ws, id, other) ==
    \E r \in RecordsWith(ws, id) : \A q \in RecordsWith(ws, other) : VisitedBefore(r, q)

MostFrequent(ws) ==
    { id \in UsedIds(ws) : \A o \in UsedIds(ws) : RecordCount(ws, id) >= RecordCount(ws, o) }

StripSets(ws) ==
    [i \in DOMAIN ws |->
        [ws[i] EXCEPT !.workoutExercises =
            [j \in DOMAIN @ |-> [exerciseId |-> @[j].exerciseId, sets |-> <<>>]]]]

NoRepeatedExercise(ws) ==
    \A i \in DOMAIN ws : \A j, k \in DOMAIN ws[i].workoutExercises :
        j # k => ws[i].workoutExercises[j].exerciseId # ws[i].workoutExercises[k].exerciseId

FavoriteReported == res.body.favoriteExercise # Nothing

Favorite == res.body.favoriteExercise[1].id

\* C5: when several exercises share the highest frequency, the favorite is the one
\* of them met first in the most-recent-first traversal, and it is the favorite of
\* the same history with every set removed.
C5_TieGoesToFirstEncountered ==
    (MeAnswered /\ Cardinality(MostFrequent(call.workouts)) >= 2) =>
        /\ FavoriteReported
        /\ Favorite \in MostFrequent(call.workouts)
        /\ \A o \in MostFrequent(call.workouts) \ {Favorite} :
               FirstSeenBefore(call.workouts, Favorite, o)
        /\ res.body.favoriteExercise
             = favoriteExercise(StripSets(call.workouts), exerciseTable)

\* Bench press and squat each in exactly 2 workouts; the squat, in the strictly
\* most recent workout, wins with fewer repetitions than the bench press.
C5_Witness ==
    /\ MeAnswered
    /\ \A id \in ExerciseIds :
          RecordCount(call.workouts, id) = 2 /\ WorkoutCount(call.workouts, id) = 2
    /\ call.workouts[1].startedAt > call.workouts[2].startedAt
    /\ call.workouts[1].workoutExercises[1].exerciseId = "squat"
    /\ Favorite = "squat"

\* C6 as stated: the favorite occurs in at least as many distinct workouts as any
\* other exercise.
C6_FavoriteInMostWorkouts ==
    (MeAnswered /\ FavoriteReported) =>
        \A o \in UsedIds(call.workouts) :
            WorkoutCount(call.workouts, Favorite) >= WorkoutCount(call.workouts, o)

\* C6 amended: the favorite is referenced by at least as many records as any other
\* exercise, a workout counting once for each record that references it; when no
\* workout references an exercise twice that is the number of distinct workouts.
C6_FavoriteInMostRecords ==
    (MeAnswered /\ UsedIds(call.workouts) # {}) =>
        /\ FavoriteReported
        /\ \A o \in UsedIds(call.workouts) :
               RecordCount(call.workouts, Favorite) >= RecordCount(call.workouts, o)
        /\ NoRepeatedExercise(call.workouts) =>
               \A o \in UsedIds(call.workouts) :
                   WorkoutCount(call.workouts, Favorite)
                     >= WorkoutCount(call.workouts, o)

\* The most recent workout references the bench press twice, two older workouts
\* the squat once each: the bench press is the favorite.
C6_Witness ==
    /\ MeAnswered
    /\ FavoriteReported
    /\ Favorite = "bench"
    /\ WorkoutCount(call.workouts, "bench") = 1
    /\ WorkoutCount(call.workouts, "squat") = 2

\* C7: the frequency of an exercise is the number of records that reference it,
\* whatever their sets; the favorite has the highest frequency; and no favorite is
\* reported for a history without workouts or without records.
C7_FrequencyCountsRecords ==
    MeAnswered =>
        LET freq == Totals(call.workouts).exerciseFrequency
        IN  /\ { freq[i].key : i \in DOMAIN freq } = UsedIds(call.workouts)
            /\ \A i \in DOMAIN freq :
                   freq[i].value = RecordCount(call.workouts, freq[i].key)
            /\ FavoriteReported =>
                   \A o \in UsedIds(call.workouts) :
                       RecordCount(call.workouts, Favorite)
                         >= RecordCount(call.workouts, o)
            /\ UsedIds(call.workouts) = {} => ~ FavoriteReported

\* The bench press is met first and has as many sets in its one record as the
\* squat in its two: the squat is the favorite.
C7_Witness ==
    /\ MeAnswered
    /\ FavoriteReported
    /\ Favorite = "squat"
    /\ call.workouts[1].workoutExercises # <<>>
    /\ call.workouts[1].workoutExercises[1].exerciseId = "bench"
    /\ RecordCount(call.workouts, "bench") = 1
    /\ RecordCount(call.workouts, "squat") = 2

\* ------------------------------------------------------------ totals claims

\* The sets of a history: workout i, record j, set k.
SetsOf(ws) ==
    UNION { { <<r[1], r[2], k>> : k \in DOMAIN ws[r[1]].workoutExercises[r[2]].sets } :
            r \in RecordsOf(ws) }

SetAt(ws, x) == ws[x[1]].workoutExercises[x[2]].sets[x[3]]

\* The sum of a function with a finite domain.
RECURSIVE SumFn(_)
SumFn(f) ==
    IF DOMAIN f = {} THEN 0
    ELSE LET x == CHOOSE y \in DOMAIN f : TRUE
         IN  f[x] + SumFn([y \in DOMAIN f \ {x} |-> f[y]])

VolumeSum(ws) ==
    SumFn([x \in SetsOf(ws) |-> SetAt(ws, x).repetitions * SetAt(ws, x).weight])

RepsSum(ws) == SumFn([x \in SetsOf(ws) |-> SetAt(ws, x).repetitions])

DurationSum(ws) ==
    SumFn([i \in DOMAIN ws |->
              IF ws[i].durationMinutes = Nothing THEN 0 ELSE ws[i].durationMinutes[1]])

\* The history with the records of workout i, or the sets of its record j, reordered.
WithExercises(ws, i, wes) == [ws EXCEPT ![i].workoutExercises = wes]

WithSets(ws, i, j, sets) == [ws EXCEPT ![i].workoutExercises[j].sets = sets]

\* The user of the last /me request owns no stored workout.
EmptyHistory ==
    /\ call.op = "me"
    /\ call.userId # NULL
    /\ \A w \in Range(workoutTable) : w.userId # call.userId

\* C8: for a user without workouts /me answers 200 with totalWorkouts 0,
\* currentStreak 0, no days, no lastWorkoutDate, no favoriteExercise,
\* heaviestWeight 0 and every sum 0.
C8_EmptyHistoryAllZero ==
    EmptyHistory =>
        /\ res.status = 200
        /\ res.body.totalWorkouts = 0
        /\ res.body.currentStreak = 0
        /\ res.body.days = <<>>
        /\ res.body.lastWorkoutDate = Nothing
        /\ res.body.favoriteExercise = Nothing
        /\ res.body.heaviestWeight = 0
        /\ res.body.totalDuration = 0
        /\ res.body.totalExercisesUsed = 0
        /\ res.body.totalSets = 0
        /\ res.body.totalReps = 0
        /\ res.body.totalVolume = 0

\* A user without workouts asks while the other user has one.
C8_Witness ==
    /\ EmptyHistory
    /\ res.status = 200
    /\ workoutTable # <<>>

\* C9: totalVolume is the sum of repetitions x weight over all sets, and the same
\* for every reordering of the workouts, of the records of a workout and of the
\* sets of a record.
C9_VolumeIsOrderFreeSum ==
    MeAnswered =>
        LET ws == call.workouts
        IN  /\ res.body.totalVolume = VolumeSum(ws)
            /\ \A p \in PermutationsOf(ws) :
                   Totals(p).totalVolume = res.body.totalVolume
            /\ \A i \in DOMAIN ws :
                   \A wes \in PermutationsOf(ws[i].workoutExercises) :
                       Totals(WithExercises(ws, i, wes)).totalVolume
                         = res.body.totalVolume
            /\ \A r \in RecordsOf(ws) :
                   \A sets \in PermutationsOf(ws[r[1]].workoutExercises[r[2]].sets) :
                       Totals(WithSets(ws, r[1], r[2], sets)).totalVolume
                         = res.body.totalVolume

\* Three workouts, one of them with two records and two different sets in a record.
C9_Witness ==
    /\ MeAnswered
    /\ Len(call.workouts) = 3
    /\ \E i \in DOMAIN call.workouts :
          /\ Len(call.workouts[i].workoutExercises) = 2
          /\ Len(call.workouts[i].workoutExercises[1].sets) = 2
    /\ \E i, j \in DOMAIN call.workouts :
          call.workouts[i].workoutExercises # call.workouts[j].workoutExercises
    /\ res.body.totalVolume > 1900

\* The example of C10: workouts today, today and yesterday with one set each,
\* (10, 50), (8, 55) and (12, 80).
ExampleHistory ==
    /\ Len(call.workouts) = 3
    /\ [i \in 1..3 |-> DayKey(call.workouts[i].startedAt)] = <<Today, Today, Today - 1>>
    /\ Cardinality(SetsOf(call.workouts)) = 3
    /\ { SetAt(call.workouts, x) : x \in SetsOf(call.workouts) } = {Set1, Set2, Set3}

\* C10: totalWorkouts is the number of workouts, totalDuration the sum of the
\* durations with an absent one as 0, totalSets the number of sets, totalReps the
\* sum of the repetitions, totalExercisesUsed the number of distinct exercises;
\* the example history gives 3 sets, 30 repetitions, volume 1900 and streak 2.
C10_TotalsAreSums ==
    MeAnswered =>
        LET ws == call.workouts
        IN  /\ res.body.totalWorkouts = Len(ws)
            /\ res.body.totalDuration = DurationSum(ws)
            /\ res.body.totalSets = Cardinality(SetsOf(ws))
            /\ res.body.totalReps = RepsSum(ws)
            /\ res.body.totalExercisesUsed = Cardinality(UsedIds(ws))
            /\ ExampleHistory =>
                   /\ res.body.totalSets = 3
                   /\ res.body.totalReps = 30
                   /\ res.body.totalVolume = 1900
                   /\ res.body.currentStreak = 2

\* The example history, one of its workouts without a duration.
C10_Witness ==
    /\ MeAnswered
    /\ ExampleHistory
    /\ \E w \in Range(call.workouts) : w.durationMinutes = Nothing
    /\ \E w \in Range(call.workouts) : w.durationMinutes # Nothing
    /\ res.body.totalDuration = 120
    /\ res.body.totalExercisesUsed = 2
    /\ res.body.totalVolume = 1900
    /\ res.body.currentStreak = 2

\* C11: heaviestWeight is the greatest weight among the sets of the user's
\* workouts, and 0 when the history holds no set: no workouts, workouts without
\* records, or records without sets.
C11_HeaviestIsMaxWeight ==
    MeAnswered =>
        LET ws      == call.workouts
            weights == { SetAt(ws, x).weight : x \in SetsOf(ws) }
        IN  IF weights = {} THEN res.body.heaviestWeight = 0
            ELSE /\ res.body.heaviestWeight \in weights
                 /\ \A x \in weights : x <= res.body.heaviestWeight

\* The heaviest set is in the second of three workouts; lighter sets are visited
\* before it and after it.
C11_Witness ==
    /\ MeAnswered
    /\ Len(call.workouts) = 3
    /\ res.body.heaviestWeight = 80
    /\ \A x \in SetsOf(call.workouts) :
          SetAt(call.workouts, x).weight = 80 => x[1] = 2
    /\ \A i \in {1, 3} : \E x \in SetsOf(call.workouts) : x[1] = i

\* ---------------------------------------------------- missing-metadata claim

\* The fields of the /me result other than favoriteExercise.
OtherStatistics ==
    { "user", "totalWorkouts", "currentStreak", "days", "lastWorkoutDate",
      "totalDuration", "totalExercisesUsed", "totalSets", "totalReps",
      "totalVolume", "heaviestWeight" }

\* The last /me request chose a favorite whose metadata row is not stored.
MetadataMissing ==
    /\ call.op = "me"
    /\ call.userId # NULL
    /\ favoriteExerciseId(call.workouts) \notin exerciseTable \cup {NULL}

\* C12: when the metadata row of the chosen favorite is missing, /me answers 200
\* with favoriteExercise null, and every other field is what it is for the same
\* history and clock with the row stored: the counts and sums of the history.
C12_MissingMetadataOmitsFavorite ==
    MetadataMissing =>
        LET ws    == call.workouts
            id    == favoriteExerciseId(ws)
            found == MeBody(call.userId, ws, call.clock, exerciseTable \cup {id})
        IN  /\ res.status = 200
            /\ res.body.favoriteExercise = Nothing
            /\ found.favoriteExercise = Just([id |-> id])
            /\ \A f \in OtherStatistics : res.body[f] = found[f]
            /\ res.body.totalWorkouts = Len(ws)
            /\ res.body.totalSets = Cardinality(SetsOf(ws))
            /\ res.body.totalVolume = VolumeSum(ws)

\* Two workouts with the bench press and one with the squat, and of the two only
\* the squat has a metadata row.
C12_Witness ==
    /\ MetadataMissing
    /\ res.status = 200
    /\ exerciseTable = {"squat"}
    /\ UsedIds(call.workouts) = {"bench", "squat"}
    /\ res.body.favoriteExercise = Nothing
    /\ res.body.totalWorkouts = 3
    /\ res.body.totalVolume > 0

\* ------------------------------------------------------ authentication claim

Handlers == {"me", "createWorkout", "getWorkout", "deleteWorkout"}

\* C13: every request without a user, to GET /me and to POST, GET and DELETE
\* /workout, is answered 401 with nothing but the Unauthorized text, has read no
\* workout, and leaves the stored workouts, the exercises and the identifier
\* counter as they were.
C13_UnauthenticatedIs401 ==
    [][ (call'.op \in Handlers /\ call'.userId = NULL) =>
            /\ res'.status = 401
            /\ res'.body \in { [error |-> "Unauthorized"], [message |-> "Unauthorized"] }
            /\ call'.workouts = <<>>
            /\ workoutTable' = workoutTable
            /\ exerciseTable' = exerciseTable
            /\ nextId' = nextId ]_vars

\* GET /me without a user while two workouts are stored.
C13_Witness ==
    /\ call.op = "me"
    /\ call.userId = NULL
    /\ res.status = 401
    /\ Len(workoutTable) >= 2

\* --------------------------------------------------------------- clock claim

\* C14: the streak /me reports is the streak of the fetched workouts at one
\* instant of the invocation, also when the day changes while it is served: the
\* today-or-yesterday test and the count agree with that one instant.
C14_StreakOfOneInstant ==
    MeAnswered =>
        \E t \in call.clock..now :
            /\ res.body.currentStreak
                 = computeStreakFromWorkouts(streakWorkoutsLite(call.workouts), t)
            /\ res.body.currentStreak > 0 <=>
                 /\ res.body.days # <<>>
                 /\ res.body.days[1] \in {DayKey(t), DayKey(t) - 1}

\* The day changed while /me was served, the last workout was on the day the
\* invocation began, and the streak of two days is reported.
C14_Witness ==
    /\ MeAnswered
    /\ DayKey(call.clock) < DayKey(now)
    /\ res.body.days # <<>>
    /\ res.body.days[1] = DayKey(call.clock)
    /\ res.body.currentStreak = 2

\* -------------------------------------------------------- pagination claims

\* GET /workout answered 200.
ListAnswered == call.op = "getWorkout" /\ res.status = 200

\* The stored workouts of the user of the last request, in insertion order.
Mine == SelectSeq(workoutTable, LAMBDA w : w.userId = call.userId)

SortedByStartDesc(rows) ==
    \A i, j \in DOMAIN rows : i < j => rows[i].startedAt >= rows[j].startedAt

\* The listings of the user's workouts by start time, most recent first.
Listings == { o \in PermutationsOf(Mine) : SortedByStartDesc(o) }

\* The rows at positions first..last of a listing.
Positions(o, first, last) ==
    [i \in 1..(IF last >= first THEN last - first + 1 ELSE 0) |-> o[first + i - 1]]

ListRequested == call.op = "getWorkout" /\ call.userId # NULL

Query == call.req[1]

\* A text that is an integer numeral: digits, after a minus sign or not.
IsNumeral(param) ==
    /\ param # Nothing
    /\ LET text   == param[1]
           digits == IF text # <<>> /\ text[1] = "-" THEN Tail(text) ELSE text
       IN  digits # <<>> /\ \A i \in DOMAIN digits : IsDigit(digits[i])

RECURSIVE DigitsValue(_)
DigitsValue(digits) ==
    IF digits = <<>> THEN 0
    ELSE 10 * DigitsValue(SubSeq(digits, 1, Len(digits) - 1))
           + DigitValue(digits[Len(digits)])

NumeralValue(param) ==
    LET text == param[1]
    IN  IF text[1] = "-" THEN 0 - DigitsValue(Tail(text)) ELSE DigitsValue(text)

\* The integer a text starts with: the value of its longest prefix that is a
\* numeral, if it has one.
LeadingInteger(param) ==
    IF param = Nothing THEN Nothing
    ELSE LET numerals == { k \in 1..Len(param[1]) :
                             IsNumeral(Just(SubSeq(param[1], 1, k))) }
         IN  IF numerals = {} THEN Nothing
             ELSE Just(NumeralValue(Just(SubSeq(param[1], 1, SetMax(numerals)))))

Rejected(message) ==
    /\ res.status = 400
    /\ res.body = [message |-> message]
    /\ call.workouts = <<>>

MeAnswers(table, userId) ==
    { MeBody(userId, ws, now, exerciseTable) : ws \in FindManyDesc(table, userId) }

ListAnswers(table, userId) ==
    { ListBody(rows, CountWorkouts(table, userId), x[1], x[2]) :
        rows \in FindManyDesc(table, userId), x \in {1, 2} \X {1, 10} }

\* C17: a createWorkout or deleteWorkout request of anyone but user A, whatever
\* it does to the store, leaves every answer A's GET /me and GET /workout can
\* give as it was; and an answer given to A holds A's workouts only.
C17_OthersNeverChangeAnswers ==
    [][ /\ call'.op \in {"createWorkout", "deleteWorkout"} =>
            \A a \in Users \ {call'.userId} :
                /\ MeAnswers(workoutTable', a) = MeAnswers(workoutTable, a)
                /\ ListAnswers(workoutTable', a) = ListAnswers(workoutTable, a)
        /\ call'.op \in {"me", "getWorkout"} =>
            \A w \in Range(call'.workouts) : w.userId = call'.userId ]_vars

\* User u2 has just created a workout while u1 owns one.
C17_Witness ==
    /\ call.op = "createWorkout"
    /\ call.userId = "u2"
    /\ res.status = 201
    /\ \E w \in Range(workoutTable) : w.userId = "u1"
    /\ \E w \in Range(workoutTable) : w.userId = "u2"

\* ------------------------------------------------------ createWorkout claims

\* POST /workout by a user; Body is the body of the request.
CreateRequested(c) == c.op = "createWorkout" /\ c.userId # NULL

Body(c) == c.req[1]

NoExercises(b) == b.exercises = <<>>

NegativeDuration(b) == b.durationMinutes # Nothing /\ b.durationMinutes[1] < 0

NegativeSet(b) ==
    \E j \in DOMAIN b.exercises : \E k \in DOMAIN b.exercises[j].sets :
        b.exercises[j].sets[k].repetitions < 0 \/ b.exercises[j].sets[k].weight < 0

UnknownExercise(b) ==
    \E j \in DOMAIN b.exercises : b.exercises[j].exerciseId \notin exerciseTable

Answered(r, status, message) == r.status = status /\ r.body = [message |-> message]

\* A body with a duration of at least a minute and with exercises.
HasFields(b) ==
    /\ b.durationMinutes # Nothing
    /\ b.durationMinutes[1] > 0
    /\ ~ NoExercises(b)

\* C18: a createWorkout request answered 400 leaves the stored workouts with
\* their records and sets, and the identifier counter, as they were; and 400 with
\* its message is the answer to a body without exercises, with a negative
\* duration, with a negative repetition count or weight, and with an exercise
\* that is not stored, also when another exercise it lists is stored.
C18_RejectedCreatePersistsNothing ==
    [][ CreateRequested(call') =>
            LET b == Body(call')
            IN  /\ res'.status = 400 =>
                       /\ workoutTable' = workoutTable
                       /\ nextId' = nextId
                       /\ exerciseTable' = exerciseTable
                /\ NoExercises(b) =>
                       Answered(res', 400, "Missing required fields")
                /\ (~ NoExercises(b) /\ NegativeDuration(b)) =>
                       Answered(res', 400, "Duration must not be negative")
                /\ (HasFields(b) /\ NegativeSet(b)) =>
                       Answered(res', 400, "Repetitions and weight must not be negative")
                /\ (HasFields(b) /\ ~ NegativeSet(b) /\ UnknownExercise(b)) =>
                       Answered(res', 400, "one or more exercises not found") ]_vars

\* A body listing a stored exercise and one that is not stored is rejected while
\* workouts are stored.
C18_Witness ==
    /\ CreateRequested(call)
    /\ Answered(res, 400, "one or more exercises not found")
    /\ \E e \in Range(Body(call).exercises) : e.exerciseId \in exerciseTable
    /\ \E e \in Range(Body(call).exercises) : e.exerciseId \notin exerciseTable
    /\ workoutTable # <<>>

\* C20 as stated: a body that passes the field checks is answered 400 "one or
\* more exercises not found" exactly when one of its exerciseIds is not stored;
\* when all are stored, also with a stored exercise listed in two entries, it is
\* created with 201.
C20_NotFoundIffUnknownExercise ==
    (CreateRequested(call) /\ HasFields(Body(call)) /\ ~ NegativeSet(Body(call))) =>
        /\ Answered(res, 400, "one or more exercises not found")
              <=> UnknownExercise(Body(call))
        /\ ~ UnknownExercise(Body(call)) => res.status = 201

\* ------------------------------------------------------ deleteWorkout claim

\* DELETE /workout by a user with a workoutId in the body.
DeleteRequested(c) ==
    c.op = "deleteWorkout" /\ c.userId # NULL /\ c.req[1].workoutId # 0

\* C19: a deleteWorkout request for a workout the user owns is answered 200
\* "Workout deleted successfully", removes that workout and only it, and every
\* answer GET /me and GET /workout can then give the owner counts one workout
\* fewer and does not list it; a request for an identifier that is not stored or
\* is owned by another user is answered 404 and leaves the workouts unchanged.
C19_OnlyOwnerDeletes ==
    [][ DeleteRequested(call') =>
            LET id    == call'.req[1].workoutId
                user  == call'.userId
                owned == \E w \in Range(workoutTable) : w.id = id /\ w.userId = user
                count == Cardinality({ i \in DOMAIN workoutTable :
                                         workoutTable[i].userId = user })
            IN  IF owned
                THEN /\ Answered(res', 200, "Workout deleted successfully")
                     /\ \A w \in Range(workoutTable') : w.id # id
                     /\ workoutTable' = SelectSeq(workoutTable, LAMBDA w : w.id # id)
                     /\ Len(workoutTable') = Len(workoutTable) - 1
                     /\ \A body \in MeAnswers(workoutTable', user) :
                            body.totalWorkouts = count - 1
                     /\ \A body \in ListAnswers(workoutTable', user) :
                            /\ body.pagination.totalWorkouts = count - 1
                            /\ \A w \in Range(body.workouts) : w.id # id
                ELSE /\ Answered(res', 404, "Workout not found")
                     /\ workoutTable' = workoutTable ]_vars

\* A user has deleted the one workout they owned; the other user's workout is
\* still stored.
C19_Witness ==
    /\ DeleteRequested(call)
    /\ Answered(res, 200, "Workout deleted successfully")
    /\ Len(workoutTable) = 1
    /\ workoutTable[1].userId # call.userId
    /\ nextId > 2

\* ------------------------------------------------------ stored-data claim

\* C21: every workout stored through createWorkout, whatever was created and
\* deleted since, has a duration of at least 1 minute, at least one exercise
\* entry and only sets with non-negative repetitions and weight; a request with
\* duration 0 is answered 400 "Missing required fields"; and every total /me
\* reports is non-negative.
C21_StoredWorkoutsAreValid ==
    /\ \A w \in Range(workoutTable) :
           /\ w.durationMinutes # Nothing
           /\ w.durationMinutes[1] >= 1
           /\ w.workoutExercises # <<>>
           /\ \A we \in Range(w.workoutExercises) : \A st \in Range(we.sets) :
                  st.repetitions >= 0 /\ st.weight >= 0
    /\ (CreateRequested(call) /\ Body(call).durationMinutes = Just(0)) =>
           Answered(res, 400, "Missing required fields")
    /\ MeAnswered =>
           \A f \in { "totalWorkouts", "currentStreak", "totalDuration",
                       "totalExercisesUsed", "totalSets", "totalReps", "totalVolume",
                       "heaviestWeight" } : res.body[f] >= 0

\* A request with duration 0 has been rejected while a workout is stored.
C21_Witness ==
    /\ CreateRequested(call)
    /\ Body(call).durationMinutes = Just(0)
    /\ Body(call).exercises # <<>>
    /\ Answered(res, 400, "Missing required fields")
    /\ Len(workoutTable) = 1

\* ------------------------------------------------------ result-shape claim

\* C22: in every /me result 0 <= currentStreak <= the number of days <=
\* totalWorkouts; lastWorkoutDate is the first of the days, the calendar day of
\* the most recent workout, and absent exactly when totalWorkouts is 0; and a
\* currentStreak above 0 means lastWorkoutDate is today or yesterday.
C22_ResultIsConsistent ==
    MeAnswered =>
        LET b == res.body
        IN  /\ 0 <= b.currentStreak
            /\ b.currentStreak <= Len(b.days)
            /\ Len(b.days) <= b.totalWorkouts
            /\ b.lastWorkoutDate = Nothing <=> b.totalWorkouts = 0
            /\ b.totalWorkouts > 0 =>
                   /\ b.lastWorkoutDate = Just(b.days[1])
                   /\ \A w \in Range(call.workouts) :
                          w.startedAt \div TicksPerDay <= b.lastWorkoutDate[1]
                   /\ \E w \in Range(call.workouts) :
                          w.startedAt \div TicksPerDay = b.lastWorkoutDate[1]
            /\ b.currentStreak > 0 =>
                   b.lastWorkoutDate \in { Just(Today), Just(Today - 1) }

\* Four workouts on three days, the last of them yesterday, and a streak of two
\* days before a gap.
C22_Witness ==
    /\ MeAnswered
    /\ res.body.totalWorkouts = 4
    /\ Len(res.body.days) = 3
    /\ res.body.currentStreak = 2
    /\ res.body.lastWorkoutDate = Just(Today - 1)

\* ------------------------------------------------------- concurrency claim

\* Two invocations that both passed the lookup for one workout before either
\* deleted it.  The lookup fails once the row is deleted and identifiers are
\* not handed out again, so any two entries for one workout are such a pair.
Interleaved(i, j) ==
    /\ i # j
    /\ deleting[i].workoutId = deleting[j].workoutId

\* C23: when two deleteWorkout requests of the owner for one workout interleave,
\* both looking the workout up before either deletes it, the workout is deleted
\* once, one request answers 200 and the other 404, and neither answers 500.
C23_InterleavedDeletesAnswer200And404 ==
    \A i, j \in DOMAIN deleting :
        Interleaved(i, j) =>
            /\ deleting[i].status # 500
            /\ (deleting[i].status # 0 /\ deleting[j].status # 0) =>
                   /\ { deleting[i].status, deleting[j].status } = { 200, 404 }
                   /\ findUnique(workoutTable, deleting[i].workoutId) = Nothing

====
